---- MODULE Spec2Model ----
(***************************************************************************)
(* Model of scripts/coverage-gate.py: the pre-commit gate that rejects     *)
(* barrel files and enforces per-file statement/branch coverage.           *)
(*                                                                         *)
(* Strings are modelled as sequences of tokens (a path "apps/web/a.ts" is  *)
(* <<"apps","/","web","/","a",".ts">>), so that prefix tests, suffix       *)
(* tests, prefix stripping and path joining are computed on the text and   *)
(* not assumed.  A file's content is a sequence of lines, each line being  *)
(* the class the three line regexes put it in.                             *)
(***************************************************************************)
EXTENDS Integers, Sequences, FiniteSets, TLC

(***************************************************************************)
(* Bounds of the model.                                                    *)
(***************************************************************************)
MaxStaged == 2       \* longest staged-file list explored
MaxCovered == 36     \* most counters > 0 in a statement map (pure check)
MaxZero == 9         \* most counters = 0 in a statement map (pure check)
MaxArmsCovered == 4  \* most arm counters > 0 in a branch map (pure check)
MaxArmsZero == 2     \* most arm counters = 0 in a branch map (pure check)
MaxLines == 4        \* most lines of a file given to is_barrel (pure check)
MaxGrouped == 3      \* longest list given to group_files_by_package (pure check)
MaxFiltered == 2     \* longest list given to get_testable_files (pure check)

(***************************************************************************)
(* Configuration (coverage-gate.py lines 25-62).                           *)
(***************************************************************************)
COVERAGE_THRESHOLD == 80

MAX_RETRIES == 5

\* A pattern is anchored at the start ("^..."), at the end ("...$") or
\* nowhere; alts are the token sequences the regex accepts (tsx? has two).
EXCLUDED_PATTERNS ==
  << [anchor |-> "end",   alts |-> {<<".config", ".ts">>}],
     [anchor |-> "end",   alts |-> {<<".setup", ".ts">>}],
     [anchor |-> "end",   alts |-> {<<".d", ".ts">>}],
     [anchor |-> "end",   alts |-> {<<".test", ".ts">>, <<".test", ".tsx">>}],
     [anchor |-> "end",   alts |-> {<<".spec", ".ts">>, <<".spec", ".tsx">>}],
     [anchor |-> "any",   alts |-> {<<"prisma", "/", "generated", "/">>}],
     [anchor |-> "any",   alts |-> {<<"/", "generated", "/">>}],
     [anchor |-> "start", alts |-> {<<"scripts", "/">>}],
     [anchor |-> "any",   alts |-> {<<".next", "/">>}],
     [anchor |-> "any",   alts |-> {<<"node_modules", "/">>}],
     [anchor |-> "any",   alts |-> {<<"dist", "/">>}],
     [anchor |-> "end",   alts |-> {<<"packages", "/", "database", "/", "src", "/", "index", ".ts">>}],
     [anchor |-> "end",   alts |-> {<<"prisma", "/", "seed", ".ts">>}],
     [anchor |-> "end",   alts |-> {<<"settings-schema", ".ts">>}] >>

PROJECT_DIRS ==
  << [prefix |-> <<"apps", "/", "web", "/">>,                       pkg |-> <<"apps", "/", "web">>],
     [prefix |-> <<"apps", "/", "orchestrator", "/">>,              pkg |-> <<"apps", "/", "orchestrator">>],
     [prefix |-> <<"packages", "/", "ui", "/">>,                    pkg |-> <<"packages", "/", "ui">>],
     [prefix |-> <<"packages", "/", "logger", "/">>,                pkg |-> <<"packages", "/", "logger">>],
     [prefix |-> <<"packages", "/", "database", "/">>,              pkg |-> <<"packages", "/", "database">>],
     [prefix |-> <<"packages", "/", "plugin-contract", "/">>,       pkg |-> <<"packages", "/", "plugin-contract">>],
     [prefix |-> <<"packages", "/", "plugins", "/", "context", "/">>,    pkg |-> <<"packages", "/", "plugins", "/", "context">>],
     [prefix |-> <<"packages", "/", "plugins", "/", "discord", "/">>,    pkg |-> <<"packages", "/", "plugins", "/", "discord">>],
     [prefix |-> <<"packages", "/", "plugins", "/", "web", "/">>,        pkg |-> <<"packages", "/", "plugins", "/", "web">>],
     [prefix |-> <<"packages", "/", "plugins", "/", "delegation", "/">>, pkg |-> <<"packages", "/", "plugins", "/", "delegation">>],
     [prefix |-> <<"packages", "/", "plugins", "/", "activity", "/">>,   pkg |-> <<"packages", "/", "plugins", "/", "activity">>],
     [prefix |-> <<"packages", "/", "plugins", "/", "metrics", "/">>,    pkg |-> <<"packages", "/", "plugins", "/", "metrics">>],
     [prefix |-> <<"packages", "/", "plugins", "/", "time", "/">>,       pkg |-> <<"packages", "/", "plugins", "/", "time">>] >>

\* os.environ["CLAUDE_PROJECT_DIR"] / os.getcwd(): an absolute directory.
project_dir == <<"/", "repo">>

(***************************************************************************)
(* String helpers: str.startswith, str.endswith, re.search of a literal.   *)
(***************************************************************************)
startswith(s, p) ==
  /\ Len(p) <= Len(s)
  /\ SubSeq(s, 1, Len(p)) = p

endswith(s, p) ==
  /\ Len(p) <= Len(s)
  /\ SubSeq(s, Len(s) - Len(p) + 1, Len(s)) = p

contains(s, p) ==
  \E i \in 1..(Len(s) - Len(p) + 1) : SubSeq(s, i, i + Len(p) - 1) = p

\* os.path.join(dir, rel) for a relative rel, then os.path.abspath (no "..").
abspath_join(dir, rel) == dir \o <<"/">> \o rel

(***************************************************************************)
(* Barrel detection (lines 67-89).  A line is classified by the regexes:   *)
(* "blank" (EMPTY_PATTERN), "comment" (COMMENT_PATTERN), "close" (a line   *)
(* that strips to the comment terminator), "reexport" (RE_EXPORT_PATTERN), *)
(* "other" (none of them).                                                 *)
(***************************************************************************)
LineKinds == {"blank", "comment", "close", "reexport", "other"}

EMPTY_PATTERN(line) == line = "blank"

COMMENT_PATTERN(line) == line \in {"comment", "close"}

RE_EXPORT_PATTERN(line) == line = "reexport"

\* The loop with a final 'return True' instead of 'return has_export'.
RECURSIVE is_barrel_from_no_flag(_, _, _)
is_barrel_from_no_flag(lines, i, has_export) ==
  IF i > Len(lines) THEN TRUE
  ELSE IF lines[i] \in {"blank", "comment", "close"}
         THEN is_barrel_from_no_flag(lines, i + 1, has_export)
  ELSE IF lines[i] = "reexport"
         THEN is_barrel_from_no_flag(lines, i + 1, TRUE)
  ELSE FALSE

\* The loop that stops looking once a re-export has been seen.
RECURSIVE is_barrel_from_first_export(_, _, _)
is_barrel_from_first_export(lines, i, has_export) ==
  IF i > Len(lines) THEN has_export
  ELSE IF lines[i] \in {"blank", "comment", "close"}
         THEN is_barrel_from_first_export(lines, i + 1, has_export)
  ELSE IF lines[i] = "reexport" THEN TRUE
  ELSE FALSE

\* The for loop of is_barrel from line i on, has_export being the flag.
RECURSIVE is_barrel_from(_, _, _)
is_barrel_from(lines, i, has_export) ==
  IF i > Len(lines) THEN has_export
  ELSE IF EMPTY_PATTERN(lines[i]) \/ COMMENT_PATTERN(lines[i])
         THEN is_barrel_from(lines, i + 1, has_export)
  ELSE IF lines[i] = "close"
         THEN is_barrel_from(lines, i + 1, has_export)
  ELSE IF RE_EXPORT_PATTERN(lines[i])
         THEN is_barrel_from(lines, i + 1, TRUE)
  ELSE FALSE

\* content is content.split("\n"): a sequence of lines, never empty.
is_barrel(content) == is_barrel_from(content, 1, FALSE)

(***************************************************************************)
(* File classification (lines 121-147).                                    *)
(***************************************************************************)
re_search(pattern, filepath) ==
  \E alt \in pattern.alts :
    CASE pattern.anchor = "end"   -> endswith(filepath, alt)
      [] pattern.anchor = "start" -> startswith(filepath, alt)
      [] OTHER                    -> contains(filepath, alt)

\* The loop that returns what the first pattern says.
RECURSIVE is_excluded_from_first_only(_, _, _)
is_excluded_from_first_only(patterns, i, filepath) ==
  IF i > Len(patterns) THEN FALSE
  ELSE re_search(patterns[i], filepath)

\* The for loop of is_excluded over a pattern list from index i on.
RECURSIVE is_excluded_from(_, _, _)
is_excluded_from(patterns, i, filepath) ==
  IF i > Len(patterns) THEN FALSE
  ELSE IF re_search(patterns[i], filepath) THEN TRUE
  ELSE is_excluded_from(patterns, i + 1, filepath)

is_excluded(filepath) == is_excluded_from(EXCLUDED_PATTERNS, 1, filepath)

IsTestable(f) ==
  /\ (endswith(f, <<".ts">>) \/ endswith(f, <<".tsx">>))
  /\ ~is_excluded(f)

get_testable_files_unfiltered(staged) == staged

get_testable_files(staged) == SelectSeq(staged, IsTestable)

\* Index of the first PROJECT_DIRS entry whose prefix the path starts with
\* (the inner for/break of group_files_by_package), 0 when there is none.
RECURSIVE first_prefix_from(_, _)
first_prefix_from(filepath, i) ==
  IF i > Len(PROJECT_DIRS) THEN 0
  ELSE IF startswith(filepath, PROJECT_DIRS[i].prefix) THEN i
  ELSE first_prefix_from(filepath, i + 1)

first_prefix(filepath) == first_prefix_from(filepath, 1)

\* groups[pkg] = [relative] without looking for an entry of the package.
setdefault_append_new_entry(groups, pkg, relative) ==
  Append(groups, [pkg |-> pkg, files |-> <<relative>>])

\* groups.setdefault(pkg, []).append(relative) on an insertion-ordered dict,
\* modelled as a sequence of [pkg, files] entries in insertion order.
setdefault_append(groups, pkg, relative) ==
  IF \E j \in 1..Len(groups) : groups[j].pkg = pkg
    THEN [j \in 1..Len(groups) |->
            IF groups[j].pkg = pkg
              THEN [groups[j] EXCEPT !.files = Append(@, relative)]
              ELSE groups[j]]
    ELSE Append(groups, [pkg |-> pkg, files |-> <<relative>>])

\* The grouping that records the repository path instead of the remainder.
RECURSIVE group_files_from_unstripped(_, _, _)
group_files_from_unstripped(testable, i, groups) ==
  IF i > Len(testable) THEN groups
  ELSE LET filepath == testable[i]
           k == first_prefix(filepath)
       IN IF k = 0
            THEN group_files_from_unstripped(testable, i + 1, groups)
            ELSE group_files_from_unstripped(testable, i + 1,
                   setdefault_append(groups, PROJECT_DIRS[k].pkg, filepath))

RECURSIVE group_files_from(_, _, _)
group_files_from(testable, i, groups) ==
  IF i > Len(testable) THEN groups
  ELSE LET filepath == testable[i]
           k == first_prefix(filepath)
       IN IF k = 0
            THEN group_files_from(testable, i + 1, groups)
            ELSE group_files_from(testable, i + 1,
                   setdefault_append(groups, PROJECT_DIRS[k].pkg,
                     SubSeq(filepath, Len(PROJECT_DIRS[k].prefix) + 1, Len(filepath))))

group_files_by_package(testable) == group_files_from(testable, 1, <<>>)

(***************************************************************************)
(* Threshold checker (lines 213-253).  A coverage record is                *)
(* [s |-> counters, b |-> sequence of arm-counter sequences]; the ids of   *)
(* the Istanbul maps are the indices.  A percentage covered/total*100 is   *)
(* kept as the exact fraction num/den; for every total within the bounds   *)
(* of this model the float comparison with 80 and Python's round() agree   *)
(* with the exact ones (they first differ at 23/40).                       *)
(***************************************************************************)
count_pos(counters) == Cardinality({i \in 1..Len(counters) : counters[i] > 0})

RECURSIVE sum_len(_, _)
sum_len(branch_map, i) ==
  IF i > Len(branch_map) THEN 0
  ELSE Len(branch_map[i]) + sum_len(branch_map, i + 1)

RECURSIVE sum_pos(_, _)
sum_pos(branch_map, i) ==
  IF i > Len(branch_map) THEN 0
  ELSE count_pos(branch_map[i]) + sum_pos(branch_map, i + 1)

pct(covered, total) ==
  IF total > 0 THEN [num |-> covered * 100, den |-> total]
  ELSE [num |-> 100, den |-> 1]

\* round(): nearest integer, ties to the even one.
round(p) ==
  LET q == p.num \div p.den
      r == p.num % p.den
  IN IF 2 * r < p.den THEN q
     ELSE IF 2 * r > p.den THEN q + 1
     ELSE IF q % 2 = 0 THEN q ELSE q + 1

ge_threshold_rounded(p) == round(p) >= COVERAGE_THRESHOLD

\* line_pct >= COVERAGE_THRESHOLD on the unrounded value.
ge_threshold(p) == p.num >= COVERAGE_THRESHOLD * p.den

line_pct(file_coverage) ==
  pct(count_pos(file_coverage.s), Len(file_coverage.s))

branch_pct(file_coverage) ==
  pct(sum_pos(file_coverage.b, 1), sum_len(file_coverage.b, 1))

missing_failure_skipped(filepath) == <<>>

\* Lines 221-229: the entry appended for a file absent from the data.
missing_failure(filepath) ==
  << [file |-> filepath, lines |-> 0, branches |-> 0,
      lines_ok |-> FALSE, branches_ok |-> FALSE] >>

\* Lines 231-251: the entries (none or one) appended for a file present.
present_failure(filepath, file_coverage) ==
  LET lp == line_pct(file_coverage)
      bp == branch_pct(file_coverage)
      lines_ok == ge_threshold(lp)
      branches_ok == ge_threshold(bp)
  IN IF ~lines_ok \/ ~branches_ok
       THEN << [file |-> filepath, lines |-> round(lp), branches |-> round(bp),
                lines_ok |-> lines_ok, branches_ok |-> branches_ok] >>
       ELSE <<>>

\* The loop that returns at the first failure it records.
RECURSIVE check_coverage_from_first_only(_, _, _)
check_coverage_from_first_only(cov, testable, i) ==
  IF i > Len(testable) THEN <<>>
  ELSE LET filepath == testable[i]
           abs_path == abspath_join(project_dir, filepath)
           entry == IF abs_path \notin DOMAIN cov
                      THEN missing_failure(filepath)
                      ELSE present_failure(filepath, cov[abs_path])
       IN IF entry # <<>> THEN entry
          ELSE check_coverage_from_first_only(cov, testable, i + 1)

RECURSIVE check_coverage_from(_, _, _)
check_coverage_from(cov, testable, i) ==
  IF i > Len(testable) THEN <<>>
  ELSE LET filepath == testable[i]
           abs_path == abspath_join(project_dir, filepath)
       IN (IF abs_path \notin DOMAIN cov
             THEN missing_failure(filepath)
             ELSE present_failure(filepath, cov[abs_path]))
          \o check_coverage_from(cov, testable, i + 1)

\* check_coverage over the files that have a package only.
check_coverage_routed_only(cov, testable) ==
  LET Routed(f) == first_prefix(f) # 0
  IN check_coverage_from(cov, SelectSeq(testable, Routed), 1)

check_coverage(cov, testable) == check_coverage_from(cov, testable, 1)

(***************************************************************************)
(* The environment of one run: the files, the index, the command line.     *)
(***************************************************************************)
FA == <<"apps", "/", "web", "/", "a", ".ts">>
FB == <<"packages", "/", "ui", "/", "b", ".tsx">>
FC == <<"tools", "/", "c", ".ts">>
FT == <<"apps", "/", "web", "/", "a", ".test", ".ts">>

Files == {FA, FB, FC, FT}

\* What os.path.isfile / open().read() find at a staged path.
Missing == [exists |-> FALSE, readable |-> FALSE, content |-> <<"blank">>]
Unreadable == [exists |-> TRUE, readable |-> FALSE, content |-> <<"blank">>]
BarrelFile == [exists |-> TRUE, readable |-> TRUE, content |-> <<"comment", "reexport", "blank">>]
LogicFile == [exists |-> TRUE, readable |-> TRUE, content |-> <<"reexport", "other", "blank">>]

FileStates == {Missing, Unreadable, BarrelFile, LogicFile}

\* Coverage records a runner can report for a file.
Good == [s |-> <<1, 1>>, b |-> <<<<1, 1>>>>]
LowBranches == [s |-> <<3>>, b |-> <<<<1, 0>>, <<0>>>>]

CovRecords == {Good, LowBranches}

\* Sequences of distinct elements of S of length at most n.
RECURSIVE DistinctSeqs(_, _)
DistinctSeqs(S, n) ==
  IF n = 0 THEN {<<>>}
  ELSE LET shorter == DistinctSeqs(S, n - 1)
       IN shorter \cup
          {Append(q, x) : <<q, x>> \in
             {t \in shorter \X S : \A i \in 1..Len(t[1]) : t[1][i] # t[2]}}

Range(q) == {q[i] : i \in 1..Len(q)}

AbsPaths(fs) == {abspath_join(project_dir, f) : f \in fs}

\* The parsed content of a coverage-final.json: absolute path -> record.
CovMaps(keys) == UNION {[ks -> CovRecords] : ks \in SUBSET keys}

EmptyMap == [k \in {} |-> Good]

Pkgs == {PROJECT_DIRS[i].pkg : i \in 1..Len(PROJECT_DIRS)}

\* The state of <pkg>/coverage/coverage-final.json.  writer is the number
\* of the runner invocation that wrote it, 0 for a file left by an earlier
\* run of the gate.
NoArtifact == [present |-> FALSE, parsable |-> FALSE, map |-> EmptyMap, writer |-> 0]

StaleArtifact ==
  [present |-> TRUE, parsable |-> TRUE,
   map |-> [k \in AbsPaths(Files) |-> Good], writer |-> 0]

\* dict | None: the result of run_coverage_for_package and run_coverage.
None == [some |-> FALSE, map |-> EmptyMap]

Some(m) == [some |-> TRUE, map |-> m]

VARIABLES
  index,          \* the staged .ts/.tsx paths git would list
  disk,           \* path -> what is on disk there
  skip_coverage,  \* "--skip-coverage" in sys.argv
  artifact,       \* package -> state of its coverage-final.json
  pc,             \* where main is
  staged_files, barrels, testable_files,   \* locals of main
  groups, pkgIdx, merged,                  \* locals of run_coverage
  attempt, data,                           \* locals of run_coverage_for_package
  coverage_data, failures,                 \* locals of main
  exitCode,       \* the value main returned (-1: none)
  exc,            \* the exception main ended with ("none": none)
  gitrc,          \* what the git query did ("unset" before it ran)
  calls,          \* history: the runner invocations so far
  checkRan        \* history: check_coverage has been called

vars == <<index, disk, skip_coverage, artifact, pc, staged_files, barrels,
          testable_files, groups, pkgIdx, merged, attempt, data,
          coverage_data, failures, exitCode, exc, gitrc, calls, checkRan>>

env == <<index, disk, skip_coverage>>

PkgsOf(fs) ==
  {PROJECT_DIRS[first_prefix(f)].pkg : f \in {g \in fs : first_prefix(g) # 0}}

Init ==
  /\ index \in DistinctSeqs(Files, MaxStaged)
  /\ disk \in {d \in [Files -> FileStates] :
                 \A f \in Files \ Range(index) : d[f] = LogicFile}
  /\ skip_coverage \in BOOLEAN
  /\ \E stale \in SUBSET PkgsOf(Range(index)) :
       artifact = [p \in Pkgs |-> IF p \in stale THEN StaleArtifact ELSE NoArtifact]
  /\ pc = "main"
  /\ staged_files = <<>>
  /\ barrels = <<>>
  /\ testable_files = <<>>
  /\ groups = <<>>
  /\ pkgIdx = 0
  /\ merged = EmptyMap
  /\ attempt = 0
  /\ data = None
  /\ coverage_data = None
  /\ failures = <<>>
  /\ exitCode = -1
  /\ exc = "none"
  /\ gitrc = "unset"
  /\ calls = <<>>
  /\ checkRan = FALSE

\* return n from main.
Return(n) ==
  /\ pc' = "done"
  /\ exitCode' = n
  /\ exc' = exc

\* An exception nothing catches: it leaves main.
Raise(e) ==
  /\ pc' = "raised"
  /\ exitCode' = exitCode
  /\ exc' = e

Goto(l) ==
  /\ pc' = l
  /\ exitCode' = exitCode
  /\ exc' = exc

(***************************************************************************)
(* get_staged_files (lines 92-102) and main lines 259-265.                 *)
(***************************************************************************)
\* git prints one path per line; stdout.strip().split("\n") of nothing is
\* one empty line, which the comprehension filters out.
git_stdout_lines(idx) == IF idx = <<>> THEN << <<>> >> ELSE idx

nonempty(line) == line # <<>>

get_staged_files(rc, idx) ==
  IF rc # "ok" THEN <<>>
  ELSE SelectSeq(git_stdout_lines(idx), nonempty)

MainGetStaged ==
  /\ pc = "main"
  /\ \E rc \in {"ok", "nonzero", "enoent"} :
       /\ gitrc' = rc
       /\ IF rc = "enoent"
            THEN /\ Raise("FileNotFoundError")
                 /\ staged_files' = staged_files
            ELSE /\ staged_files' = get_staged_files(rc, index)
                 /\ IF staged_files' = <<>> THEN Return(0) ELSE Goto("barrels")
  /\ UNCHANGED <<env, artifact, barrels, testable_files, groups, pkgIdx, merged,
                 attempt, data, coverage_data, failures, calls, checkRan>>

(***************************************************************************)
(* check_barrels (lines 105-116) and main lines 267-279.                   *)
(***************************************************************************)
\* open()/read() raises on the first existing staged file it cannot read.
check_barrels_raises(staged) ==
  \E i \in 1..Len(staged) : disk[staged[i]].exists /\ ~disk[staged[i]].readable

IsStagedBarrel(f) == disk[f].exists /\ is_barrel(disk[f].content)

check_barrels(staged) == SelectSeq(staged, IsStagedBarrel)

MainCheckBarrels ==
  /\ pc = "barrels"
  /\ IF check_barrels_raises(staged_files)
       THEN /\ Raise("OSError")
            /\ barrels' = barrels
       ELSE /\ barrels' = check_barrels(staged_files)
            /\ IF barrels' # <<>> THEN Return(1)
               ELSE IF skip_coverage THEN Return(0)
               ELSE Goto("testable")
  /\ UNCHANGED <<env, artifact, staged_files, testable_files, groups, pkgIdx,
                 merged, attempt, data, coverage_data, failures, gitrc, calls,
                 checkRan>>

(***************************************************************************)
(* main lines 282-287.                                                     *)
(***************************************************************************)
MainTestable ==
  /\ pc = "testable"
  /\ testable_files' = get_testable_files(staged_files)
  /\ IF testable_files' = <<>> THEN Return(0) ELSE Goto("run_coverage")
  /\ UNCHANGED <<env, artifact, staged_files, barrels, groups, pkgIdx, merged,
                 attempt, data, coverage_data, failures, gitrc, calls, checkRan>>

(***************************************************************************)
(* run_coverage_for_package (lines 150-193).  One action per runner        *)
(* invocation: the deletion of the stale artifact before it, the           *)
(* subprocess, and the isfile/json.load after it.                          *)
(***************************************************************************)
remove_stale_skipped(art, pkg) == art

\* if os.path.isfile(coverage_path): os.remove(coverage_path)
remove_stale(art, pkg) == [art EXCEPT ![pkg] = NoArtifact]

\* What a vitest process can do to the artifact: write a coverage map
\* ("artifact"), write something json.load rejects ("garbage"), or write
\* nothing ("none", and when the process does not end normally).
subprocess_run(art, pkg, out, m, n) ==
  CASE out = "artifact" ->
         [art EXCEPT ![pkg] = [present |-> TRUE, parsable |-> TRUE, map |-> m, writer |-> n]]
    [] out = "garbage" ->
         [art EXCEPT ![pkg] = [present |-> TRUE, parsable |-> FALSE, map |-> EmptyMap, writer |-> n]]
    [] OTHER -> art

\* The first call has no timeout argument; the fallback calls have one.
RelatedOutcomes == {"artifact", "garbage", "none", "enoent"}

FullOutcomes == {"artifact", "garbage", "none", "enoent", "timeout"}

\* subprocess.run raises: the executable is missing, or timeout expired.
run_raises(out) == out \in {"enoent", "timeout"}

run_exception(out) ==
  IF out = "enoent" THEN "FileNotFoundError" ELSE "TimeoutExpired"

more_attempts_off_by_one(a) == a <= MAX_RETRIES

\* The for loop over range(1, MAX_RETRIES + 1) has an attempt after a.
more_attempts(a) == a < MAX_RETRIES

\* The keys a coverage map can have that this run can observe.
ObservableMaps == CovMaps(AbsPaths(Range(testable_files)))

\* Lines 168-170 and 185-187: the artifact exists, json.load it.
LoadArtifact(pkg) ==
  IF artifact'[pkg].parsable
    THEN /\ data' = Some(artifact'[pkg].map)
         /\ Goto("pkg_ret")
    ELSE /\ data' = data
         /\ Raise("JSONDecodeError")

RelatedRun ==
  /\ pc = "related"
  /\ LET pkg == groups[pkgIdx].pkg
         n == Len(calls) + 1
     IN \E out \in RelatedOutcomes, m \in ObservableMaps :
          /\ out # "artifact" => m = EmptyMap
          /\ calls' = Append(calls, [pkg |-> pkg, kind |-> "related",
                                     attempt |-> 0, outcome |-> out])
          /\ artifact' = subprocess_run(remove_stale(artifact, pkg), pkg, out, m, n)
          /\ IF run_raises(out)
               THEN /\ Raise(run_exception(out))
                    /\ UNCHANGED <<data, attempt>>
               ELSE IF artifact'[pkg].present
                 THEN /\ LoadArtifact(pkg)
                      /\ attempt' = attempt
                 ELSE /\ attempt' = 1
                      /\ data' = data
                      /\ Goto("full")
  /\ UNCHANGED <<env, staged_files, barrels, testable_files, groups, pkgIdx,
                 merged, coverage_data, failures, gitrc, checkRan>>

FullRun ==
  /\ pc = "full"
  /\ LET pkg == groups[pkgIdx].pkg
         n == Len(calls) + 1
     IN \E out \in FullOutcomes, m \in ObservableMaps :
          /\ out # "artifact" => m = EmptyMap
          /\ calls' = Append(calls, [pkg |-> pkg, kind |-> "full",
                                     attempt |-> attempt, outcome |-> out])
          /\ artifact' = subprocess_run(remove_stale(artifact, pkg), pkg, out, m, n)
          /\ IF run_raises(out)
               THEN /\ Raise(run_exception(out))
                    /\ UNCHANGED <<data, attempt>>
               ELSE IF artifact'[pkg].present
                 THEN /\ LoadArtifact(pkg)
                      /\ attempt' = attempt
                 ELSE IF more_attempts(attempt)
                   THEN /\ attempt' = attempt + 1
                        /\ data' = data
                        /\ Goto("full")
                   ELSE /\ attempt' = attempt
                        /\ data' = None
                        /\ Goto("pkg_ret")
  /\ UNCHANGED <<env, staged_files, barrels, testable_files, groups, pkgIdx,
                 merged, coverage_data, failures, gitrc, checkRan>>

(***************************************************************************)
(* run_coverage (lines 196-210).                                           *)
(***************************************************************************)
\* A merge that keeps the value a key already has.
update_keep_first(m, d) ==
  [k \in (DOMAIN m) \cup (DOMAIN d) |-> IF k \in DOMAIN m THEN m[k] ELSE d[k]]

\* merged.update(d)
update(m, d) ==
  [k \in (DOMAIN m) \cup (DOMAIN d) |-> IF k \in DOMAIN d THEN d[k] ELSE m[k]]

is_none_ignored(d) == FALSE

\* if data is None
is_none(d) == ~d.some

RunCoverageGroup ==
  /\ pc = "run_coverage"
  /\ groups' = group_files_by_package(testable_files)
  /\ merged' = EmptyMap
  /\ IF groups' = <<>>
       THEN /\ coverage_data' = Some(EmptyMap)
            /\ pkgIdx' = pkgIdx
            /\ Goto("main_cov")
       ELSE /\ coverage_data' = coverage_data
            /\ pkgIdx' = 1
            /\ Goto("related")
  /\ UNCHANGED <<env, artifact, staged_files, barrels, testable_files, attempt,
                 data, failures, gitrc, calls, checkRan>>

\* Lines 205-210: the package call has returned data.
RunCoverageNext ==
  /\ pc = "pkg_ret"
  /\ IF is_none(data)
       THEN /\ coverage_data' = None
            /\ UNCHANGED <<merged, pkgIdx>>
            /\ Goto("main_cov")
       ELSE /\ merged' = update(merged, data.map)
            /\ IF pkgIdx < Len(groups)
                 THEN /\ pkgIdx' = pkgIdx + 1
                      /\ coverage_data' = coverage_data
                      /\ Goto("related")
                 ELSE /\ pkgIdx' = pkgIdx
                      /\ coverage_data' = Some(merged')
                      /\ Goto("main_cov")
  /\ UNCHANGED <<env, artifact, staged_files, barrels, testable_files, groups,
                 attempt, data, failures, gitrc, calls, checkRan>>

(***************************************************************************)
(* main lines 288-307.                                                     *)
(***************************************************************************)
MainCoverage ==
  /\ pc = "main_cov"
  /\ IF is_none(coverage_data)
       THEN /\ UNCHANGED <<failures, checkRan>>
            /\ Return(1)
       ELSE /\ failures' = check_coverage(coverage_data.map, testable_files)
            /\ checkRan' = TRUE
            /\ IF failures' # <<>> THEN Return(1) ELSE Return(0)
  /\ UNCHANGED <<env, artifact, staged_files, barrels, testable_files, groups,
                 pkgIdx, merged, attempt, data, coverage_data, gitrc, calls>>

Next ==
  \/ MainGetStaged
  \/ MainCheckBarrels
  \/ MainTestable
  \/ RunCoverageGroup
  \/ RelatedRun
  \/ FullRun
  \/ RunCoverageNext
  \/ MainCoverage

Spec == Init /\ [][Next]_vars

(***************************************************************************)
(* check_coverage on its own, as test_check_coverage calls it: the inputs  *)
(* are drawn from statement maps with up to MaxCovered counters > 0 and    *)
(* MaxZero counters = 0, and branch maps of two branches.                  *)
(***************************************************************************)
Counters(c, z) == [i \in 1..(c + z) |-> IF i <= c THEN i ELSE 0]

StmtMaps == {Counters(c, z) : c \in 0..MaxCovered, z \in 0..MaxZero}

BranchMaps ==
  {<<>>} \cup
  {<<Counters(c, 0), Counters(0, z)>> : c \in 0..MaxArmsCovered, z \in 0..MaxArmsZero}

CheckRecords == [s : StmtMaps, b : BranchMaps]

InitCheck ==
  /\ index = <<>>
  /\ disk = [f \in Files |-> LogicFile]
  /\ skip_coverage = FALSE
  /\ artifact = [p \in Pkgs |-> NoArtifact]
  /\ pc = "check_coverage"
  /\ staged_files = <<>>
  /\ barrels = <<>>
  /\ testable_files \in {<<FA>>, <<FC, FA>>}
  /\ groups = <<>>
  /\ pkgIdx = 0
  /\ merged = EmptyMap
  /\ attempt = 0
  /\ data = None
  /\ \E ks \in SUBSET AbsPaths({FA}) :
       \E m \in [ks -> CheckRecords] : coverage_data = Some(m)
  /\ failures = <<>>
  /\ exitCode = -1
  /\ exc = "none"
  /\ gitrc = "unset"
  /\ calls = <<>>
  /\ checkRan = FALSE

CheckCoverageCall ==
  /\ pc = "check_coverage"
  /\ failures' = check_coverage(coverage_data.map, testable_files)
  /\ checkRan' = TRUE
  /\ Goto("checked")
  /\ UNCHANGED <<env, artifact, staged_files, barrels, testable_files, groups,
                 pkgIdx, merged, attempt, data, coverage_data, gitrc, calls>>

NextCheck == CheckCoverageCall

SpecCheck == InitCheck /\ [][NextCheck]_vars

(***************************************************************************)
(* Properties.                                                             *)
(***************************************************************************)
Terminated == pc \in {"done", "raised"}

\* The last call of run_coverage_for_package returned None (line 193).
ReturnedNone ==
  /\ pc \in {"pkg_ret", "main_cov", "done"}
  /\ calls # <<>>
  /\ ~data.some

\* C1: once run_coverage_for_package has returned None for a package, no
\* later package is run (no further runner invocation happens), run_coverage
\* returns None, check_coverage is never executed and no failure entry is
\* produced, and main returns 1.
C1_FailClosedRun ==
  /\ [](ReturnedNone =>
          /\ ~checkRan
          /\ failures = <<>>
          /\ pc \in {"main_cov", "done"} => ~coverage_data.some
          /\ pc = "done" => exitCode = 1)
  /\ [][ReturnedNone => (calls' = calls /\ pkgIdx' = pkgIdx /\ pc' # "raised")]_vars

\* A run in which the first of two packages was unavailable and main is done.
C1_Witness ==
  /\ ReturnedNone
  /\ pc = "done"
  /\ exitCode = 1
  /\ pkgIdx < Len(groups)

\* What the interpreter reports for sys.exit(main()) (line 311): main's
\* return value, or 1 when an exception nothing catches leaves main.
ProcessExit == IF pc = "raised" THEN 1 ELSE exitCode

\* The three reasons for an exit code of 1, read off the environment.
StagedBarrel == \E f \in Range(staged_files) : IsStagedBarrel(f)

\* Data unobtainable: a package call gave None, or a runner call or the
\* load of its artifact ended main.
CoverageUnobtainable ==
  \/ ReturnedNone
  \/ pc = "raised" /\ calls # <<>>

FileBelowThreshold(cov, f) ==
  LET abs_path == abspath_join(project_dir, f)
  IN \/ abs_path \notin DOMAIN cov
     \/ /\ abs_path \in DOMAIN cov
        /\ \/ ~ge_threshold(line_pct(cov[abs_path]))
           \/ ~ge_threshold(branch_pct(cov[abs_path]))

SomeFileBelowThreshold ==
  /\ coverage_data.some
  /\ \E f \in Range(testable_files) : FileBelowThreshold(coverage_data.map, f)

\* C2: every run ends with exit code 0 or 1, and the code is 1 exactly when
\* a staged file is a barrel, or coverage data could not be produced, or a
\* testable file is below the threshold.  (Read in the weakest way: the
\* process status stands for the exit code of a run an exception ended.)
C2_ExitCodeContract ==
  Terminated =>
    /\ ProcessExit \in {0, 1}
    /\ ProcessExit = 1 <=>
         (StagedBarrel \/ CoverageUnobtainable \/ SomeFileBelowThreshold)

\* The same contract holds of the runs that main ends by returning.
C2_ReturnedRuns ==
  pc = "done" =>
    /\ exitCode \in {0, 1}
    /\ exitCode = 1 <=>
         (StagedBarrel \/ CoverageUnobtainable \/ SomeFileBelowThreshold)

Unrouted(f) == first_prefix(f) = 0

\* The paths a package group hands to its runner, as repository paths.
GroupedFiles ==
  {groups[j].pkg \o <<"/">> \o groups[j].files[k] :
     <<j, k>> \in {t \in (1..Len(groups)) \X (1..MaxStaged + 1) :
                     t[2] <= Len(groups[t[1]].files)}}

\* C3: a testable staged file that matches no routing prefix is in no
\* package's run and is not marked as failing, so it can never make main
\* exit 1: a run that exits 1 on thresholds has a failing routed file.
C3_UnroutedNeverFails ==
  /\ \A f \in GroupedFiles : ~Unrouted(f)
  /\ \A i \in 1..Len(failures) : ~Unrouted(failures[i].file)
  /\ (pc = "done" /\ exitCode = 1 /\ checkRan) =>
       \E i \in 1..Len(failures) : ~Unrouted(failures[i].file)

\* The part of C3 the code keeps: no unrouted file is in a package's run.
C3_UnroutedNotInRuns == \A f \in GroupedFiles : ~Unrouted(f)

EntriesFor(f) == {j \in 1..Len(failures) : failures[j].file = f}

\* C4: every testable file given to check_coverage whose absolute path is
\* not a key of the coverage data gets exactly one failure entry, with
\* lines = 0, branches = 0 and both flags false.
C4_AbsentFileFails ==
  pc = "checked" =>
    \A i \in 1..Len(testable_files) :
      abspath_join(project_dir, testable_files[i]) \notin DOMAIN coverage_data.map =>
        /\ Cardinality(EntriesFor(testable_files[i])) = 1
        /\ \A j \in EntriesFor(testable_files[i]) :
             failures[j] = [file |-> testable_files[i], lines |-> 0, branches |-> 0,
                            lines_ok |-> FALSE, branches_ok |-> FALSE]

\* check_coverage has run on a list of two files, one absent from the data
\* and one present and passing.
C4_Witness ==
  /\ pc = "checked"
  /\ testable_files = <<FC, FA>>
  /\ DOMAIN coverage_data.map = AbsPaths({FA})
  /\ Len(failures) = 1
  /\ failures[1].file = FC

\* Counters > 0 and counters in all, counted on the maps themselves.
Covered(counters) == Cardinality({i \in DOMAIN counters : counters[i] > 0})

ArmIds(b) == {t \in (DOMAIN b) \X (1..(MaxArmsCovered + MaxArmsZero + 2)) : t[2] <= Len(b[t[1]])}

CoveredArms(b) == Cardinality({t \in ArmIds(b) : b[t[1]][t[2]] > 0})

\* C5: a file present in the data fails iff covered_statements*100 <
\* 80*total_statements (total > 0) or covered_arms*100 < 80*total_arms
\* (total > 0); the flags report which; a zero total passes; the comparison
\* is on the unrounded ratio, so exactly 80% passes and an entry can report
\* 80 and still fail.
C5_ThresholdRule ==
  pc = "checked" =>
    \A i \in 1..Len(testable_files) :
      LET f == testable_files[i]
          abs_path == abspath_join(project_dir, f)
      IN abs_path \in DOMAIN coverage_data.map =>
           LET rec == coverage_data.map[abs_path]
               ts == Len(rec.s)
               cs == Covered(rec.s)
               tb == Cardinality(ArmIds(rec.b))
               cb == CoveredArms(rec.b)
               lines_fail == ts > 0 /\ cs * 100 < 80 * ts
               arms_fail == tb > 0 /\ cb * 100 < 80 * tb
           IN /\ (EntriesFor(f) # {}) <=> (lines_fail \/ arms_fail)
              /\ \A j \in EntriesFor(f) :
                   /\ failures[j].lines_ok = ~lines_fail
                   /\ failures[j].branches_ok = ~arms_fail

\* 35 of 44 statements covered (79.5%): reported as 80, and failing.
C5_Witness ==
  /\ pc = "checked"
  /\ \E j \in 1..Len(failures) :
       /\ failures[j].lines = 80
       /\ ~failures[j].lines_ok
       /\ failures[j].branches_ok

LastCall == calls[Len(calls)]

CallsOf(p) == {i \in 1..Len(calls) : calls[i].pkg = p}

\* The artifact existed after runner invocation i.
ArtifactAfter(i) == calls[i].outcome \in {"artifact", "garbage"}

\* The subprocess call of invocation i returned to its caller.
CallReturned(i) == calls[i].outcome \notin {"enoent", "timeout"}

\* C6: per package one 'related tests' invocation, then at most 5
\* full-suite invocations; the first invocation after which the artifact
\* exists is the last one and its data is what the call returns; None is
\* returned only after 5 full-suite attempts without artifact; and when
\* every subprocess call returns, the call ends in one of these two ways.
C6_BoundedRetry ==
  /\ \A p \in Pkgs :
       /\ Cardinality({i \in CallsOf(p) : calls[i].kind = "related"}) <= 1
       /\ Cardinality({i \in CallsOf(p) : calls[i].kind = "full"}) <= 5
       /\ \A i \in CallsOf(p) :
            /\ calls[i].kind = "full" =>
                 /\ i > 1
                 /\ calls[i - 1].pkg = p
                 /\ calls[i - 1].attempt = calls[i].attempt - 1
            /\ ArtifactAfter(i) => \A k \in CallsOf(p) : k <= i
  /\ (calls # <<>> /\ ArtifactAfter(Len(calls))) =>
       /\ pc # "raised"
       /\ pc = "pkg_ret" => data = Some(artifact[LastCall.pkg].map)
  /\ ReturnedNone =>
       /\ LastCall.kind = "full"
       /\ LastCall.attempt = 5
       /\ \A i \in CallsOf(LastCall.pkg) : ~ArtifactAfter(i)
  /\ (pc = "raised" /\ calls # <<>>) => ~CallReturned(Len(calls))

\* C7: a timed-out runner invocation counts as a failed attempt: the loop
\* goes on with the next attempt if one remains, and after the last one the
\* package result is None; the timeout does not end main.
C7_TimeoutIsRetried ==
  (calls # <<>> /\ LastCall.outcome = "timeout") =>
    /\ pc # "raised"
    /\ LastCall.attempt < MAX_RETRIES => (pc = "full" /\ attempt = LastCall.attempt + 1)
    /\ LastCall.attempt = MAX_RETRIES => ReturnedNone

\* C8: main never ends by an uncaught exception; every failure mode ends
\* in a returned exit code of 0 or 1.
C8_NoUncaughtException ==
  /\ pc # "raised"
  /\ pc = "done" => exitCode \in {0, 1}

\* C9: in a run where the staged-file query fails (git exits non-zero) or
\* the test runner cannot produce data, main does not return 0.
C9_FailsClosedOnToolingFailure ==
  (pc = "done" /\ (gitrc = "nonzero" \/ CoverageUnobtainable)) => exitCode # 0

\* The half of C9 about the test runner holds.
C9_RunnerHalf == (pc = "done" /\ CoverageUnobtainable) => exitCode = 1

\* C10: if an existing staged file is a barrel, main returns 1, the
\* reported list holds every staged barrel path, and no test runner is
\* invoked, whatever the flag and the other staged files.
C10_BarrelBlocks ==
  StagedBarrel =>
    /\ calls = <<>>
    /\ Terminated =>
         /\ pc = "done"
         /\ exitCode = 1
         /\ Range(barrels) = {f \in Range(staged_files) : IsStagedBarrel(f)}

\* The same holds of the runs in which every staged file can be read.
C10_ReadableRuns ==
  (StagedBarrel /\ ~check_barrels_raises(staged_files)) =>
    /\ calls = <<>>
    /\ Terminated =>
         /\ pc = "done"
         /\ exitCode = 1
         /\ Range(barrels) = {f \in Range(staged_files) : IsStagedBarrel(f)}

\* C11: a test runner is invoked only in a run whose staged-file list is not
\* empty, with no barrel among the staged files, without --skip-coverage and
\* with a staged file that is testable after the exclusions; when the query
\* answers with no staged files main returns 0 with no runner invoked, and in
\* barrel-only mode no runner is ever invoked.
C11_RunnerOnlyWhenApplicable ==
  /\ calls # <<>> =>
       /\ staged_files # <<>>
       /\ ~StagedBarrel
       /\ ~skip_coverage
       /\ \E f \in Range(staged_files) : IsTestable(f)
  /\ (gitrc \in {"ok", "nonzero"} /\ staged_files = <<>>) =>
       (pc = "done" /\ exitCode = 0 /\ calls = <<>>)
  /\ skip_coverage => (calls = <<>> /\ ~checkRan)

\* A runner has been invoked and main has returned; and the list also held
\* an excluded file.
C11_Witness ==
  /\ calls # <<>>
  /\ pc = "done"
  /\ \E f \in Range(staged_files) : ~IsTestable(f)

(***************************************************************************)
(* The pure functions on their own.  Idle fixes every variable the call    *)
(* under test does not read or write.                                      *)
(***************************************************************************)
Idle ==
  /\ index = <<>>
  /\ skip_coverage = FALSE
  /\ artifact = [p \in Pkgs |-> NoArtifact]
  /\ groups = <<>>
  /\ pkgIdx = 0
  /\ merged = EmptyMap
  /\ attempt = 0
  /\ data = None
  /\ coverage_data = None
  /\ failures = <<>>
  /\ exitCode = -1
  /\ exc = "none"
  /\ gitrc = "unset"
  /\ calls = <<>>
  /\ checkRan = FALSE

\* Non-empty sequences over S of length at most n.
SeqsUpTo(S, n) == UNION {[1..k -> S] : k \in 1..n}

\* check_barrels on one staged file whose content is any sequence of at
\* most MaxLines classified lines (split never gives an empty list).
InitBarrel ==
  /\ Idle
  /\ pc = "check_barrels"
  /\ staged_files = <<FA>>
  /\ barrels = <<>>
  /\ testable_files = <<>>
  /\ \E content \in SeqsUpTo(LineKinds, MaxLines) :
       disk = [f \in Files |->
                 IF f = FA
                   THEN [exists |-> TRUE, readable |-> TRUE, content |-> content]
                   ELSE LogicFile]

CheckBarrelsCall ==
  /\ pc = "check_barrels"
  /\ barrels' = check_barrels(staged_files)
  /\ Goto("barrels_checked")
  /\ UNCHANGED <<env, artifact, staged_files, testable_files, groups, pkgIdx,
                 merged, attempt, data, coverage_data, failures, gitrc, calls,
                 checkRan>>

NextBarrel == CheckBarrelsCall

SpecBarrel == InitBarrel /\ [][NextBarrel]_vars

\* The content is_barrel was given, and what it answered.
BarrelInput == disk[FA].content

BarrelAnswer == barrels # <<>>

\* C12: is_barrel answers true iff the lines contain at least one re-export
\* line and no line that is neither blank, comment nor re-export; so it
\* answers false for the empty file and for blank/comment-only files.
C12_BarrelClassification ==
  pc = "barrels_checked" =>
    /\ BarrelAnswer <=>
         /\ \E i \in 1..Len(BarrelInput) : BarrelInput[i] = "reexport"
         /\ \A i \in 1..Len(BarrelInput) : BarrelInput[i] # "other"
    /\ (\A i \in 1..Len(BarrelInput) : BarrelInput[i] \in {"blank", "comment", "close"})
         => ~BarrelAnswer

\* A file of a comment, a re-export and the blank after the last newline
\* has been found to be a barrel.
C12_Witness ==
  /\ pc = "barrels_checked"
  /\ BarrelInput = <<"comment", "reexport", "blank">>
  /\ barrels = <<FA>>

Perms(n) == {p \in [1..n -> 1..n] : \A i, j \in 1..n : p[i] = p[j] => i = j}

Permute(q, p) == [i \in 1..Len(q) |-> q[p[i]]]

InsertAt(q, k, x) == SubSeq(q, 1, k) \o <<x>> \o SubSeq(q, k + 1, Len(q))

\* C17: the answer of is_barrel is the same for every permutation of the
\* file's lines, and putting one 'other' line at any position (first, middle
\* or last) of a file that is a barrel makes the answer false.
C17_BarrelOrderIndependent ==
  pc = "barrels_checked" =>
    /\ \A p \in Perms(Len(BarrelInput)) :
         is_barrel(Permute(BarrelInput, p)) = BarrelAnswer
    /\ BarrelAnswer =>
         \A k \in 0..Len(BarrelInput) : ~is_barrel(InsertAt(BarrelInput, k, "other"))

\* A barrel of three lines, re-export first, has been classified: its
\* permutations put the re-export last, and the insertion has a middle.
C17_Witness ==
  /\ pc = "barrels_checked"
  /\ BarrelAnswer
  /\ Len(BarrelInput) = 3
  /\ BarrelInput[1] = "reexport"
  /\ BarrelInput[3] = "comment"

\* C13: whenever run_coverage_for_package parses the artifact, the artifact
\* was written by the runner invocation just before (the last one of the
\* history), never by an earlier attempt or an earlier run of the gate
\* (writer 0), and the data returned is that artifact's content.
C13_NoStaleRead ==
  /\ (pc = "pkg_ret" /\ data.some) =>
       /\ LastCall.outcome = "artifact"
       /\ artifact[LastCall.pkg].present
       /\ artifact[LastCall.pkg].writer = Len(calls)
       /\ data.map = artifact[LastCall.pkg].map
  /\ (pc = "raised" /\ exc = "JSONDecodeError") =>
       /\ LastCall.outcome = "garbage"
       /\ artifact[LastCall.pkg].writer = Len(calls)

\* A package call has returned data from its third full-suite attempt, in a
\* run that started with stale artifacts on disk (the one of the package
\* still to come is there).
C13_Witness ==
  /\ pc = "pkg_ret"
  /\ data.some
  /\ LastCall.kind = "full"
  /\ LastCall.attempt = 3
  /\ \E p \in Pkgs : p # LastCall.pkg /\ artifact[p] = StaleArtifact

\* C14: during the merge a key already in the merged mapping never has its
\* value replaced by a later package's data, whatever the artifacts are.
C14_MergeAppendOnly ==
  [][\A k \in DOMAIN merged : k \in DOMAIN merged' /\ merged'[k] = merged[k]]_vars

\* C14 as amended: the merge never removes a key, and a key already present
\* keeps its value unless the data of the package being merged has the same
\* key, in which case the value becomes that package's.
C14_MergeLastWins ==
  [][\A k \in DOMAIN merged :
       /\ k \in DOMAIN merged'
       /\ (pc = "pkg_ret" /\ data.some /\ k \in DOMAIN data.map)
            => merged'[k] = data.map[k]
       /\ ~(pc = "pkg_ret" /\ data.some /\ k \in DOMAIN data.map)
            => merged'[k] = merged[k]]_vars

\* The second package's data has been merged: a key the first package's
\* artifact (still on disk) reports as Good is LowBranches in the merged
\* mapping, the value of the second package.
C14_Witness ==
  /\ pkgIdx = 2
  /\ data.some
  /\ pc = "main_cov"
  /\ \E k \in DOMAIN data.map : merged[k] = LowBranches
  /\ artifact[groups[1].pkg].present
  /\ \E k \in DOMAIN data.map \cap DOMAIN artifact[groups[1].pkg].map :
       artifact[groups[1].pkg].map[k] = Good /\ merged[k] = LowBranches

(***************************************************************************)
(* Runs of main in which two staged files belong to the same package.      *)
(***************************************************************************)
FD == <<"apps", "/", "web", "/", "lib", "/", "d", ".ts">>

InitSamePackage ==
  /\ index \in DistinctSeqs({FA, FD, FB}, MaxStaged)
  /\ disk = [f \in Files \cup {FD} |-> LogicFile]
  /\ skip_coverage \in BOOLEAN
  /\ \E stale \in SUBSET PkgsOf(Range(index)) :
       artifact = [p \in Pkgs |-> IF p \in stale THEN StaleArtifact ELSE NoArtifact]
  /\ pc = "main"
  /\ staged_files = <<>>
  /\ barrels = <<>>
  /\ testable_files = <<>>
  /\ groups = <<>>
  /\ pkgIdx = 0
  /\ merged = EmptyMap
  /\ attempt = 0
  /\ data = None
  /\ coverage_data = None
  /\ failures = <<>>
  /\ exitCode = -1
  /\ exc = "none"
  /\ gitrc = "unset"
  /\ calls = <<>>
  /\ checkRan = FALSE

SpecSamePackage == InitSamePackage /\ [][Next]_vars

\* C15: the runner invocations form one sequence (each subprocess.run has
\* ended before the next starts); the invocations of one package are
\* consecutive and begin with its single 'related' invocation; the next
\* package's first invocation comes only after the previous package's call
\* has returned its data; the packages follow the order of the grouping and
\* none is run twice.
C15_SequentialPackages ==
  /\ \A i, j \in 1..Len(calls) :
       (i < j /\ calls[i].pkg = calls[j].pkg) =>
         /\ \A k \in i..j : calls[k].pkg = calls[i].pkg
         /\ calls[j].kind = "full"
  /\ \A i \in 1..Len(calls) :
       /\ (i = 1 \/ calls[i].kind = "related") <=>
            (i = 1 \/ calls[i - 1].pkg # calls[i].pkg)
       /\ i = 1 => calls[i].kind = "related"
       /\ (i > 1 /\ calls[i - 1].pkg # calls[i].pkg) => calls[i - 1].outcome = "artifact"
  /\ \A i \in 1..Len(calls) :
       LET nth == Cardinality({calls[k].pkg : k \in 1..i})
       IN /\ nth <= pkgIdx
          /\ pkgIdx <= Len(groups)
          /\ calls[i].pkg = groups[nth].pkg
  /\ \A i, j \in 1..Len(groups) : groups[i].pkg = groups[j].pkg => i = j

\* The second package is being run after the first went through two
\* fallback attempts.
C15_Witness ==
  /\ Len(calls) >= 4
  /\ calls[1].pkg # LastCall.pkg
  /\ calls[3].kind = "full"
  /\ calls[3].pkg = calls[1].pkg

(***************************************************************************)
(* group_files_by_package on its own.                                      *)
(***************************************************************************)
FP == <<"packages", "/", "plugins", "/", "web", "/", "src", "/", "p", ".ts">>
FW == <<"lib", "/", "apps", "/", "web", "/", "w", ".ts">>

GroupPaths == {FA, FD, FB, FC, FP, FW}

InitGroup ==
  /\ Idle
  /\ pc = "group_files"
  /\ disk = [f \in Files |-> LogicFile]
  /\ staged_files = <<>>
  /\ barrels = <<>>
  /\ testable_files \in DistinctSeqs(GroupPaths, MaxGrouped)

GroupCall ==
  /\ pc = "group_files"
  /\ groups' = group_files_by_package(testable_files)
  /\ Goto("grouped")
  /\ UNCHANGED <<env, artifact, staged_files, barrels, testable_files, pkgIdx,
                 merged, attempt, data, coverage_data, failures, gitrc, calls,
                 checkRan>>

NextGroup == GroupCall

SpecGroup == InitGroup /\ [][NextGroup]_vars

\* The routing-table entries whose prefix a path starts with.
Matching(f) == {t \in 1..Len(PROJECT_DIRS) : startswith(f, PROJECT_DIRS[t].prefix)}

\* The places <<group, position>> of the groups.
GroupSlots ==
  {s \in (1..Len(groups)) \X (1..MaxGrouped + 1) : s[2] <= Len(groups[s[1]].files)}

\* C16: each file is in at most one group: the group of the first table
\* entry whose prefix it starts with, which is also the longest matching
\* prefix; the path recorded is the path without that prefix; a file that
\* matches no prefix is in no group, and the groups hold nothing else.
C16_PackageRouting ==
  pc = "grouped" =>
    /\ \A i \in 1..Len(testable_files) :
         LET f == testable_files[i]
             first == CHOOSE t \in Matching(f) : \A u \in Matching(f) : t <= u
             slots == {s \in GroupSlots :
                         \E t \in 1..Len(PROJECT_DIRS) :
                           /\ PROJECT_DIRS[t].pkg = groups[s[1]].pkg
                           /\ PROJECT_DIRS[t].prefix \o groups[s[1]].files[s[2]] = f}
         IN IF Matching(f) = {}
              THEN slots = {}
              ELSE /\ Cardinality(slots) = 1
                   /\ \A s \in slots :
                        /\ groups[s[1]].pkg = PROJECT_DIRS[first].pkg
                        /\ groups[s[1]].files[s[2]] =
                             SubSeq(f, Len(PROJECT_DIRS[first].prefix) + 1, Len(f))
                   /\ \A u \in Matching(f) :
                        Len(PROJECT_DIRS[u].prefix) <= Len(PROJECT_DIRS[first].prefix)
    /\ Cardinality(GroupSlots) =
         Cardinality({i \in 1..Len(testable_files) : Matching(testable_files[i]) # {}})
    /\ \A t, u \in 1..Len(PROJECT_DIRS) :
         t # u => ~startswith(PROJECT_DIRS[t].prefix, PROJECT_DIRS[u].prefix)

\* Three files have been grouped: two of one package, in one group, and one
\* that matches no prefix.
C16_Witness ==
  /\ pc = "grouped"
  /\ Len(testable_files) = 3
  /\ Len(groups) = 1
  /\ groups[1].files = << <<"a", ".ts">>, <<"lib", "/", "d", ".ts">> >>

\* A file has no entry in the data main checked, or an entry below 80% on
\* statements or on branch arms (counted on the maps themselves).
ViolatesThreshold(f) ==
  LET abs_path == abspath_join(project_dir, f)
      cov == coverage_data.map
  IN \/ abs_path \notin DOMAIN cov
     \/ /\ abs_path \in DOMAIN cov
        /\ LET rec == cov[abs_path]
               ts == Len(rec.s)
               tb == Cardinality(ArmIds(rec.b))
           IN \/ ts > 0 /\ Covered(rec.s) * 100 < 80 * ts
              \/ tb > 0 /\ CoveredArms(rec.b) * 100 < 80 * tb

\* C18: check_coverage goes through every testable file: the files of the
\* failure entries are, in the order of the input list, exactly the files
\* that are absent from the data or violate a threshold, one entry each.
C18_AllFailuresReported ==
  checkRan =>
    [j \in 1..Len(failures) |-> failures[j].file]
      = SelectSeq(testable_files, ViolatesThreshold)

\* Two files were checked and both failed, the first for being absent and
\* the second on its branches.
C18_Witness ==
  /\ pc = "done"
  /\ checkRan
  /\ Len(failures) = 2
  /\ failures[1].lines = 0
  /\ failures[2].lines_ok
  /\ ~failures[2].branches_ok

(***************************************************************************)
(* get_testable_files / is_excluded on their own, on the paths of          *)
(* test_is_excluded and one path or more for each other pattern.           *)
(***************************************************************************)
ExcludePaths ==
  { <<"vitest", ".config", ".ts">>,
    <<"vitest", ".setup", ".ts">>,
    <<"types", "/", "global", ".d", ".ts">>,
    <<"src", "/", "foo", ".test", ".ts">>,
    <<"src", "/", "foo", ".spec", ".tsx">>,
    <<"prisma", "/", "generated", "/", "client", ".ts">>,
    <<"src", "/", "generated", "/", "api", ".ts">>,
    <<"generated", "/", "api", ".ts">>,
    <<"scripts", "/", "build", ".ts">>,
    <<"apps", "/", "web", "/", "scripts", "/", "build", ".ts">>,
    <<".next", "/", "types", "/", "app", ".ts">>,
    <<"node_modules", "/", "pkg", "/", "index", ".ts">>,
    <<"packages", "/", "ui", "/", "dist", "/", "index", ".ts">>,
    <<"packages", "/", "database", "/", "src", "/", "index", ".ts">>,
    <<"packages", "/", "database", "/", "prisma", "/", "seed", ".ts">>,
    <<"src", "/", "settings-schema", ".ts">>,
    <<"src", "/", "utils", ".ts">>,
    <<"src", "/", "app", "/", "page", ".tsx">>,
    <<"src", "/", "foo", ".test", ".md">>,
    <<"src", "/", "readme", ".md">> }

InitFilter ==
  /\ Idle
  /\ pc = "get_testable_files"
  /\ disk = [f \in Files |-> LogicFile]
  /\ staged_files \in DistinctSeqs(ExcludePaths, MaxFiltered)
  /\ barrels = <<>>
  /\ testable_files = <<>>

FilterCall ==
  /\ pc = "get_testable_files"
  /\ testable_files' = get_testable_files(staged_files)
  /\ Goto("filtered")
  /\ UNCHANGED <<env, artifact, staged_files, barrels, groups, pkgIdx, merged,
                 attempt, data, coverage_data, failures, gitrc, calls, checkRan>>

NextFilter == FilterCall

SpecFilter == InitFilter /\ [][NextFilter]_vars

\* Orders of the pattern list: every exchange of two patterns (these
\* generate all permutations), the reversal and the rotation by one.
PatternOrders ==
  LET n == Len(EXCLUDED_PATTERNS)
  IN {[i \in 1..n |-> EXCLUDED_PATTERNS[IF i = a THEN b ELSE IF i = b THEN a ELSE i]] :
        <<a, b>> \in (1..n) \X (1..n)}
     \cup {[i \in 1..n |-> EXCLUDED_PATTERNS[n + 1 - i]]}
     \cup {[i \in 1..n |-> EXCLUDED_PATTERNS[(i % n) + 1]]}

SomePatternMatches(f) ==
  \E i \in 1..Len(EXCLUDED_PATTERNS) : re_search(EXCLUDED_PATTERNS[i], f)

KeptByFilter(f) ==
  /\ f[Len(f)] \in {".ts", ".tsx"}
  /\ ~SomePatternMatches(f)

\* C19: is_excluded(path) is true iff some pattern of the list matches the
\* path, so it gives the same answer for the list in any other order; and
\* get_testable_files keeps exactly the .ts/.tsx files of the list for
\* which it is false, in their order.
C19_ExclusionOrderIndependent ==
  pc = "filtered" =>
    /\ \A f \in Range(staged_files) :
         /\ is_excluded(f) = SomePatternMatches(f)
         /\ \A patterns \in PatternOrders :
              is_excluded_from(patterns, 1, f) = is_excluded(f)
    /\ testable_files = SelectSeq(staged_files, KeptByFilter)

\* A list of an excluded file (matched by the fourth pattern only) and a
\* kept file has been filtered.
C19_Witness ==
  /\ pc = "filtered"
  /\ staged_files = << <<"src", "/", "foo", ".test", ".ts">>, <<"src", "/", "utils", ".ts">> >>
  /\ testable_files = << <<"src", "/", "utils", ".ts">> >>

\* C20: in a run that reached the coverage step (there are testable staged
\* files) and in which main returned 0, every testable file has an entry
\* under its absolute path in the merged coverage data, and the entry is at
\* or above 80% (or has a zero total) on statements and on branch arms.
C20_GateSoundness ==
  (pc = "done" /\ exitCode = 0 /\ testable_files # <<>>) =>
    /\ checkRan
    /\ coverage_data.some
    /\ coverage_data.map = merged
    /\ \A f \in Range(testable_files) :
         /\ abspath_join(project_dir, f) \in DOMAIN merged
         /\ ~ViolatesThreshold(f)

\* main has returned 0 for two testable files of two packages, the first of
\* which needed a fallback attempt.
C20_Witness ==
  /\ pc = "done"
  /\ exitCode = 0
  /\ Len(testable_files) = 2
  /\ Len(groups) = 2
  /\ Len(calls) >= 3

====
